---------------------------- MODULE Spec2Model ----------------------------
(***************************************************************************)
(* The accelerometer capture loop of pu_simulator: a window of devicemotion *)
(* readings is collected for COLLECTION_TIME, normalised to TARGET_SAMPLES  *)
(* entries, handed to the TF.js model, and the loop re-arms.                *)
(*                                                                          *)
(* Five variants of the script are modelled side by side; `variant` is      *)
(* fixed in the initial state:                                              *)
(*   "main_truncate"    src/main.js lines 1-234                             *)
(*   "main_downsample"  src/main.js lines 236-482                           *)
(*   "part_000"         src/unnamed/part_000                                *)
(*   "part_001"         src/unnamed/part_001 (single shot, no loop)         *)
(*   "part_002"         src/unnamed/part_002 (rolling buffer, no model)     *)
(***************************************************************************)
EXTENDS Integers, Sequences, FiniteSets, TLC

(***************************************************************************)
(* Program constants and model bounds.                                     *)
(***************************************************************************)
TARGET_SAMPLES == 52

\* part_002: the rolling buffer holds BUFFER_LENGTH_SEC seconds of readings
SAMPLE_RATE == 50
BUFFER_LENGTH_SEC == 2
MAX_SAMPLES == SAMPLE_RATE * BUFFER_LENGTH_SEC

\* readings one window may collect before its timer has to fire
MaxWindow == 100

\* collection cycles (pending timers plus suspended runInference calls) that
\* may exist at the same time
MaxCycles == 2

\* motion events counted while no listener is registered
MaxIgnored == 2

\* readings the rolling buffer of part_002 may receive beyond MAX_SAMPLES
MaxRolled == 2

\* readings a window may collect from a sensor that omits values
MaxFaultyWindow == 2

\* readings a window may collect where only the scheduling is looked at
MaxShortWindow == 2

(***************************************************************************)
(* IEEE-754 binary64 arithmetic, as far as the downsample branch uses it:   *)
(* step = accelData.length / TARGET_SAMPLES, then Math.floor(i * step).     *)
(* A double d >= 1 is held in fixed point as                                *)
(*   d.int + d.f1 / B + d.f2 / B^2 + d.f3 / B^3,   B = 2^18,                *)
(* which has room for the 53 significand bits of every value the loop can   *)
(* produce.  `sticky` says that the exact value lies strictly above the     *)
(* digits held.  Every operation rounds to nearest, ties to even.           *)
(***************************************************************************)
LimbBase == 2^18

\* number of binary digits of n >= 1
BitLen(n) == CHOOSE k \in 1..30 : 2^(k - 1) <= n /\ n < 2^k

\* a / b to 54 fraction bits, truncated, for integers a >= b >= 1
FixDiv(a, b) ==
  LET r0 == a % b
      r1 == (r0 * LimbBase) % b
      r2 == (r1 * LimbBase) % b
      r3 == (r2 * LimbBase) % b
  IN  [int |-> a \div b,
       f1  |-> (r0 * LimbBase) \div b,
       f2  |-> (r1 * LimbBase) \div b,
       f3  |-> (r2 * LimbBase) \div b,
       sticky |-> r3 # 0]

\* i * v, exactly, for an integer i >= 1 and a double v
FixMul(i, v) ==
  LET t3 == v.f3 * i
      t2 == v.f2 * i + t3 \div LimbBase
      t1 == v.f1 * i + t2 \div LimbBase
  IN  [int |-> v.int * i + t1 \div LimbBase,
       f1  |-> t1 % LimbBase,
       f2  |-> t2 % LimbBase,
       f3  |-> t3 % LimbBase,
       sticky |-> FALSE]

\* v rounded to 53 significant bits: with n integer bits, 53 - n fraction bits
\* stay and the lowest n + 1 of the 54 held are rounded away
RoundToDouble(v) ==
  LET unit == 2^(BitLen(v.int) + 1)
      low  == v.f3 % unit
      half == unit \div 2
      lsb  == IF unit < LimbBase THEN (v.f3 \div unit) % 2 ELSE v.f2 % 2
      up   == low > half \/ (low = half /\ (v.sticky \/ lsb = 1))
      t3   == v.f3 - low + (IF up THEN unit ELSE 0)
      t2   == v.f2 + t3 \div LimbBase
      t1   == v.f1 + t2 \div LimbBase
  IN  [int |-> v.int + t1 \div LimbBase,
       f1  |-> t1 % LimbBase,
       f2  |-> t2 % LimbBase,
       f3  |-> t3 % LimbBase,
       sticky |-> FALSE]

\* the double a / b, for integers a >= b >= 1
DoubleDiv(a, b) == RoundToDouble(FixDiv(a, b))

\* the double i * d, for an integer i >= 0 and a double d >= 1
DoubleMul(i, d) ==
  IF i = 0 THEN [int |-> 0, f1 |-> 0, f2 |-> 0, f3 |-> 0, sticky |-> FALSE]
  ELSE RoundToDouble(FixMul(i, d))

\* Math.floor
DoubleFloor(d) == d.int

(***************************************************************************)
(* Readings, events and the listener table.                                *)
(***************************************************************************)
Variants     == {"main_truncate", "main_downsample", "part_000", "part_001",
                 "part_002"}
MainVariants == {"main_truncate", "main_downsample"}
LoopVariants == MainVariants \cup {"part_000"}

\* an axis value the event does not carry
Undefined == 0 - 1

\* the entry the pad loops push
ZeroReading == [x |-> 0, y |-> 0, z |-> 0]

\* the registration made by
\* window.addEventListener('devicemotion', handleMotionEvent, true)
MotionListener ==
  [type |-> "devicemotion", handler |-> "handleMotionEvent", capture |-> TRUE]

\* a listener list that takes the same registration twice
AddEventListenerAlways(ls, l) == Append(ls, l)

\* EventTarget's listener list: a registration equal to one in the list is
\* not added again
AddEventListener(ls, l) ==
  IF \E k \in 1..Len(ls) : ls[k] = l THEN ls ELSE Append(ls, l)

RemoveEventListener(ls, l) == SelectSeq(ls, LAMBDA r : r # l)

\* how often a devicemotion event calls handleMotionEvent
Registrations(ls) ==
  Len(SelectSeq(ls, LAMBDA r : r.type = "devicemotion"
                                /\ r.handler = "handleMotionEvent"))

\* event.accelerationIncludingGravity of a device that reports none
NullAcceleration == [null |-> TRUE]

\* The k-th devicemotion event of a window.  Readings are numbered by their
\* arrival so that loss, duplication and reordering show in the buffer; `now`
\* is what performance.now() returns while the event is handled.
SensorEvents(k) ==
  {[accelerationIncludingGravity |-> [x |-> k, y |-> k, z |-> k], now |-> k]}

\* the k-th event of a sensor that may leave out one axis, every axis, or the
\* whole accelerationIncludingGravity
FaultySensorEvents(k) ==
  SensorEvents(k) \cup
  {[accelerationIncludingGravity |-> a, now |-> k] :
     a \in {[x |-> k, y |-> k, z |-> Undefined],
            [x |-> Undefined, y |-> Undefined, z |-> Undefined],
            NullAcceleration}}

(***************************************************************************)
(* Window normalisation.                                                   *)
(***************************************************************************)
\* a pad loop that stops one entry early
PadToTargetShort(data) ==
  data \o [k \in 1..(TARGET_SAMPLES - 1 - Len(data)) |-> ZeroReading]

\* a pad that fills at the front
PadToTargetFront(data) ==
  [k \in 1..(TARGET_SAMPLES - Len(data)) |-> ZeroReading] \o data

\* the pad loop: push {x: 0, y: 0, z: 0} while length < TARGET_SAMPLES
PadToTarget(data) ==
  data \o [k \in 1..(TARGET_SAMPLES - Len(data)) |-> ZeroReading]

\* slice(0, -begin): the head instead of the tail
SliceFromStart(data, begin) ==
  SubSeq(data, 1, IF 0 - begin < Len(data) THEN 0 - begin ELSE Len(data))

\* Array.prototype.slice(begin) for a negative begin
SliceFromEnd(data, begin) ==
  LET from == IF Len(data) + begin < 0 THEN 0 ELSE Len(data) + begin
  IN  SubSeq(data, from + 1, Len(data))

\* an index taken at the end of each slot: Math.floor((i + 1) * step)
DownsampleIndexSlotEnd(i, length) ==
  DoubleFloor(DoubleMul(i + 1, DoubleDiv(length, TARGET_SAMPLES)))

\* Math.floor(i * step) with step = length / TARGET_SAMPLES, in doubles
DownsampleIndex(i, length) ==
  DoubleFloor(DoubleMul(i, DoubleDiv(length, TARGET_SAMPLES)))

\* accelData[index]: undefined outside the array
ArrayGet(data, index) ==
  IF index >= 0 /\ index < Len(data) THEN data[index + 1]
  ELSE [x |-> Undefined, y |-> Undefined, z |-> Undefined]

\* the downsample loop
Downsample(data) ==
  [k \in 1..TARGET_SAMPLES |->
     ArrayGet(data, DownsampleIndex(k - 1, Len(data)))]

\* stopCollectingData, pad or truncate
NormalizeTruncate(data) ==
  IF Len(data) < TARGET_SAMPLES THEN PadToTarget(data)
  ELSE IF Len(data) > TARGET_SAMPLES THEN SliceFromEnd(data, 0 - TARGET_SAMPLES)
  ELSE data

\* stopCollectingData, pad or downsample
NormalizeDownsample(data) ==
  IF Len(data) < TARGET_SAMPLES THEN PadToTarget(data)
  ELSE IF Len(data) > TARGET_SAMPLES THEN Downsample(data)
  ELSE data

\* a normalisation whose pad loop runs while length <= TARGET_SAMPLES
NormalizeOffByOne(v, data) ==
  IF Len(data) <= TARGET_SAMPLES
  THEN data \o [k \in 1..(TARGET_SAMPLES + 1 - Len(data)) |-> ZeroReading]
  ELSE IF v = "main_downsample" THEN Downsample(data)
  ELSE SliceFromEnd(data, 0 - TARGET_SAMPLES)

Normalize(v, data) ==
  IF v = "main_downsample" THEN NormalizeDownsample(data)
  ELSE NormalizeTruncate(data)

(***************************************************************************)
(* State.                                                                  *)
(***************************************************************************)
VARIABLES
  variant,      \* which script is loaded
  initPc,       \* where initDemo stands: "idle", "permission", "loading", and,
                \* once it has returned, "denied" (at its permission test) or
                \* "done"
  model,        \* "null" or "loaded"
  continueLoop, \* the loop flag (unused by part_001 and part_002)
  accelData,    \* the buffer
  listeners,    \* the listener list of window
  timers,       \* pending setTimeout(stopCollectingData) callbacks
  inflight,     \* runInference calls suspended at await outputTensor.data()
  resume,       \* a runInference promise is settled and the code waiting for
                \* it is queued as a microtask
  status,       \* textContent of #status
  unhandled,    \* functions an exception or rejection escaped from, unhandled
  tfResult,     \* history: what the latest runInference call met
  ignored,      \* history: motion events delivered since the listener was
                \* removed
  lastWindow,   \* history, kept until the next window is armed: the buffer
                \* the latest stopCollectingData found and the buffer it
                \* handed to runInference
  refused       \* history, kept until the next stop or arm: a start call
                \* returned at its continueLoop test

vars == <<variant, initPc, model, continueLoop, accelData, listeners, timers,
          inflight, resume, status, unhandled, tfResult, ignored, lastWindow,
          refused>>

\* what arming a window writes
window == <<accelData, listeners, timers, ignored, lastWindow, refused>>

Status(text, n) == [text |-> text, n |-> n]

NoWindow == [fired |-> FALSE, raw |-> <<>>, handed |-> <<>>]

Init ==
  /\ variant \in Variants
  /\ initPc = "idle"
  /\ model = "null"
  /\ continueLoop = TRUE
  /\ accelData = <<>>
  /\ listeners = <<>>
  /\ timers = 0
  /\ inflight = 0
  /\ resume = FALSE
  /\ status = Status("", 0)
  /\ unhandled = {}
  /\ tfResult = "none"
  /\ ignored = 0
  /\ lastWindow = NoWindow
  /\ refused = FALSE

\* the collection cycles that exist: armed windows and running inferences
Cycles == timers + inflight + (IF resume THEN 1 ELSE 0)

\* initDemo has returned
InitDemoReturned == initPc \in {"done", "denied"}

(***************************************************************************)
(* startCollectingData, entered with the loop flag cl, the buffer data, the *)
(* registrations ls and tm pending timers.  Only main.js tests the flag;    *)
(* part_002 only registers the listener.                                    *)
(***************************************************************************)
\* startCollectingData without accelData = []
StartCollectingDataKeepsBuffer(cl, data, ls, tm) ==
  IF variant \in MainVariants /\ ~cl
  THEN /\ accelData' = data
       /\ listeners' = ls
       /\ timers' = tm
       /\ refused' = TRUE
       /\ UNCHANGED <<ignored, lastWindow>>
  ELSE IF variant = "part_002"
  THEN /\ accelData' = data
       /\ listeners' = AddEventListener(ls, MotionListener)
       /\ timers' = tm
       /\ refused' = FALSE
       /\ UNCHANGED <<ignored, lastWindow>>
  ELSE /\ accelData' = data
       /\ listeners' = AddEventListener(ls, MotionListener)
       /\ timers' = tm + 1
       /\ ignored' = 0
       /\ lastWindow' = NoWindow
       /\ refused' = FALSE

\* startCollectingData without its continueLoop test
StartCollectingDataUnguarded(cl, data, ls, tm) ==
  IF variant = "part_002"
  THEN /\ accelData' = data
       /\ listeners' = AddEventListener(ls, MotionListener)
       /\ timers' = tm
       /\ refused' = FALSE
       /\ UNCHANGED <<ignored, lastWindow>>
  ELSE /\ accelData' = <<>>
       /\ listeners' = AddEventListener(ls, MotionListener)
       /\ timers' = tm + 1
       /\ ignored' = 0
       /\ lastWindow' = NoWindow
       /\ refused' = FALSE

StartCollectingData(cl, data, ls, tm) ==
  IF variant \in MainVariants /\ ~cl
  THEN /\ accelData' = data
       /\ listeners' = ls
       /\ timers' = tm
       /\ refused' = TRUE
       /\ UNCHANGED <<ignored, lastWindow>>
  ELSE IF variant = "part_002"
  THEN /\ accelData' = data
       /\ listeners' = AddEventListener(ls, MotionListener)
       /\ timers' = tm
       /\ refused' = FALSE
       /\ UNCHANGED <<ignored, lastWindow>>
  ELSE /\ accelData' = <<>>
       /\ listeners' = AddEventListener(ls, MotionListener)
       /\ timers' = tm + 1
       /\ ignored' = 0
       /\ lastWindow' = NoWindow
       /\ refused' = FALSE

\* a continuation that arms the next window whatever the flag says
AfterInferenceAlways ==
  IF variant \in LoopVariants
  THEN StartCollectingData(TRUE, accelData, listeners, timers)
  ELSE UNCHANGED window

\* what follows runInference once its promise is fulfilled: the rest of
\* stopCollectingData in main.js, the then-callback in part_000, nothing in
\* part_001
AfterInference ==
  IF variant \in LoopVariants /\ continueLoop
  THEN StartCollectingData(continueLoop, accelData, listeners, timers)
  ELSE UNCHANGED window

(***************************************************************************)
(* startContinuousLoop (main.js) and startLoop (part_000), called again by  *)
(* the page once initDemo has returned; main.js also leaves                 *)
(* startCollectingData itself open to the page.                             *)
(***************************************************************************)
StartContinuousLoop ==
  /\ variant \in MainVariants
  /\ InitDemoReturned
  /\ ~resume
  /\ Cycles < MaxCycles
  /\ continueLoop' = TRUE
  /\ StartCollectingData(TRUE, accelData, listeners, timers)
  /\ UNCHANGED <<variant, initPc, model, inflight, resume, status, unhandled,
                 tfResult>>

StartCollectingDataCall ==
  /\ variant \in MainVariants
  /\ InitDemoReturned
  /\ ~resume
  /\ Cycles < MaxCycles
  /\ StartCollectingData(continueLoop, accelData, listeners, timers)
  /\ UNCHANGED <<variant, initPc, model, continueLoop, inflight, resume,
                 status, unhandled, tfResult>>

StartLoop ==
  /\ variant = "part_000"
  /\ InitDemoReturned
  /\ ~resume
  /\ Cycles < MaxCycles
  /\ IF ~continueLoop
     THEN /\ refused' = TRUE
          /\ UNCHANGED <<accelData, listeners, timers, ignored, lastWindow>>
     ELSE StartCollectingData(continueLoop, accelData, listeners, timers)
  /\ UNCHANGED <<variant, initPc, model, continueLoop, inflight, resume, status,
                 unhandled, tfResult>>

(***************************************************************************)
(* stopContinuousLoop (main.js) and stopLoop (part_000).                    *)
(***************************************************************************)
\* a stop that only clears the flag
StopKeepsListener ==
  /\ variant \in LoopVariants
  /\ ~resume
  /\ continueLoop' = FALSE
  /\ status' = Status("Loop stopped.", 0)
  /\ refused' = FALSE
  /\ UNCHANGED <<variant, initPc, model, accelData, listeners, timers,
                 inflight, resume, unhandled, tfResult, ignored, lastWindow>>

\* a stop that also cancels the pending timers and empties the buffer
StopCancelsWindow ==
  /\ variant \in LoopVariants
  /\ ~resume
  /\ continueLoop' = FALSE
  /\ listeners' = RemoveEventListener(listeners, MotionListener)
  /\ timers' = 0
  /\ accelData' = <<>>
  /\ status' = Status("Loop stopped.", 0)
  /\ refused' = FALSE
  /\ UNCHANGED <<variant, initPc, model, inflight, resume, unhandled, tfResult,
                 ignored, lastWindow>>

StopContinuousLoop ==
  /\ variant \in LoopVariants
  /\ ~resume
  /\ continueLoop' = FALSE
  /\ listeners' = RemoveEventListener(listeners, MotionListener)
  /\ status' = Status("Loop stopped.", 0)
  /\ refused' = FALSE
  /\ UNCHANGED <<variant, initPc, model, accelData, timers, inflight, resume,
                 unhandled, tfResult, ignored, lastWindow>>

(***************************************************************************)
(* handleMotionEvent.                                                      *)
(***************************************************************************)
\* x || 0
OrZero(v) == IF v = Undefined \/ v = 0 THEN 0 ELSE v

\* event.accelerationIncludingGravity || {}
OrEmpty(a) ==
  IF a = NullAcceleration
  THEN [x |-> Undefined, y |-> Undefined, z |-> Undefined]
  ELSE a

\* the reading handleMotionEvent pushes
ReadingOf(v, event) ==
  LET a == OrEmpty(event.accelerationIncludingGravity)
  IN  IF v \in MainVariants
      THEN [x |-> OrZero(a.x), y |-> OrZero(a.y), z |-> OrZero(a.z)]
      ELSE IF v = "part_002"
      THEN [x |-> a.x, y |-> a.y, z |-> a.z, t |-> event.now]
      ELSE [x |-> a.x, y |-> a.y, z |-> a.z]

\* const { x, y, z } = event.accelerationIncludingGravity throws a TypeError
\* when there is nothing to destructure
DestructureThrows(v, event) ==
  v \notin MainVariants /\ event.accelerationIncludingGravity = NullAcceleration

\* part_002: x.toFixed(3) throws on an axis without a value
ToFixedThrows(v, event) ==
  /\ v = "part_002"
  /\ LET a == OrEmpty(event.accelerationIncludingGravity)
     IN  a.x = Undefined \/ a.y = Undefined \/ a.z = Undefined

\* a rolling buffer that drops the newest reading (pop) instead of the
\* oldest (shift)
PushedDropsNewest(v, data, event) ==
  IF DestructureThrows(v, event) THEN data
  ELSE LET more == Append(data, ReadingOf(v, event))
       IN  IF v = "part_002" /\ Len(more) > MAX_SAMPLES
           THEN SubSeq(more, 1, Len(more) - 1)
           ELSE more

\* the buffer after one call of handleMotionEvent
Pushed(v, data, event) ==
  IF DestructureThrows(v, event) THEN data
  ELSE LET more == Append(data, ReadingOf(v, event))
       IN  IF v = "part_002" /\ Len(more) > MAX_SAMPLES THEN Tail(more)
           ELSE more

\* the buffer after the event has called handleMotionEvent once for each of
\* its n registrations
RECURSIVE Dispatch(_, _, _, _)
Dispatch(v, data, event, n) ==
  IF n = 0 THEN data ELSE Dispatch(v, Pushed(v, data, event), event, n - 1)

HandleMotionEvent(event) ==
  /\ accelData' = Dispatch(variant, accelData, event, Registrations(listeners))
  /\ IF DestructureThrows(variant, event) \/ ToFixedThrows(variant, event)
     THEN /\ unhandled' = unhandled \cup {"handleMotionEvent"}
          /\ UNCHANGED status
     ELSE /\ status' = IF variant = "part_002"
                       THEN Status("Latest Reading", event.now)
                       ELSE Status("Collecting", Len(accelData'))
          /\ UNCHANGED unhandled

\* the number the next reading carries
NextReading ==
  IF variant = "part_002" /\ accelData # <<>>
  THEN accelData[Len(accelData)].t + 1
  ELSE Len(accelData) + 1

\* the sensor delivers an event: handleMotionEvent runs if it is registered,
\* and nothing runs if it is not
Deliver(event) ==
  /\ ~resume
  /\ IF Registrations(listeners) > 0
     THEN /\ HandleMotionEvent(event)
          /\ UNCHANGED ignored
     ELSE /\ ignored < MaxIgnored
          /\ ignored' = ignored + 1
          /\ UNCHANGED <<accelData, status, unhandled>>
  /\ UNCHANGED <<variant, initPc, model, continueLoop, listeners, timers,
                 inflight, resume, tfResult, lastWindow, refused>>

MotionEvent ==
  /\ Registrations(listeners) > 0 =>
       IF variant = "part_002" THEN NextReading <= MAX_SAMPLES + MaxRolled
       ELSE Len(accelData) < MaxWindow
  /\ \E event \in SensorEvents(NextReading) : Deliver(event)

\* the same, from a sensor that omits values
FaultyMotionEvent ==
  /\ Registrations(listeners) > 0 => Len(accelData) < MaxFaultyWindow
  /\ \E event \in FaultySensorEvents(NextReading) : Deliver(event)

(***************************************************************************)
(* The collection timer fires: stopCollectingData, with runInference up to  *)
(* its first suspension.  `outcome` is what TF.js does with this window:    *)
(*   "tensorThrows"   tf.tensor3d(...).reshape(...) throws                  *)
(*   "predictThrows"  model.predict throws                                  *)
(*   "pending"        outputTensor.data() returns a promise still pending   *)
(* When runInference returns without suspending, the code waiting for its   *)
(* promise is queued as a microtask and runs before any other task.         *)
(***************************************************************************)
RunInferenceOutcomes == {"tensorThrows", "predictThrows", "pending"}

\* a runInference without its try/catch
CaughtNever(v, outcome) == FALSE

\* does runInference catch a failure of this kind?
Caught(v, outcome) == v \in MainVariants /\ outcome # "tensorThrows"

\* runInference, entered with the model loaded
RunInference(outcome) ==
  IF outcome = "pending"
  THEN /\ inflight' = inflight + 1
       /\ tfResult' = outcome
       /\ status' = Status("Collected", Len(accelData'))
       /\ UNCHANGED <<resume, unhandled>>
  ELSE IF Caught(variant, outcome)
  THEN /\ status' = Status("Error", 0)
       /\ tfResult' = outcome
       /\ resume' = TRUE
       /\ UNCHANGED <<inflight, unhandled>>
  ELSE /\ status' = Status("Collected", Len(accelData'))
       /\ tfResult' = outcome
       /\ unhandled' = unhandled \cup {"runInference"}
       /\ UNCHANGED <<inflight, resume>>

\* a stopCollectingData that leaves the listener registered
TimerFireKeepsListener ==
  /\ timers > 0
  /\ ~resume
  /\ timers' = timers - 1
  /\ accelData' = Normalize(variant, accelData)
  /\ lastWindow' = [fired |-> TRUE, raw |-> accelData, handed |-> accelData']
  /\ IF model = "null"
     THEN /\ status' = Status("Model not loaded.", 0)
          /\ tfResult' = "modelNull"
          /\ resume' = TRUE
          /\ UNCHANGED <<inflight, unhandled>>
     ELSE \E outcome \in RunInferenceOutcomes : RunInference(outcome)
  /\ UNCHANGED <<variant, initPc, model, continueLoop, listeners, ignored,
                 refused>>

TimerFire ==
  /\ timers > 0
  /\ ~resume
  /\ timers' = timers - 1
  /\ listeners' = RemoveEventListener(listeners, MotionListener)
  /\ accelData' = Normalize(variant, accelData)
  /\ lastWindow' = [fired |-> TRUE, raw |-> accelData, handed |-> accelData']
  /\ IF model = "null"
     THEN /\ status' = Status("Model not loaded.", 0)
          /\ tfResult' = "modelNull"
          /\ resume' = TRUE
          /\ UNCHANGED <<inflight, unhandled>>
     ELSE \E outcome \in RunInferenceOutcomes : RunInference(outcome)
  /\ UNCHANGED <<variant, initPc, model, continueLoop, ignored, refused>>

\* the microtask: the code waiting for a runInference that did not suspend
ResumeAfterInference ==
  /\ resume
  /\ resume' = FALSE
  /\ AfterInference
  /\ UNCHANGED <<variant, initPc, model, continueLoop, inflight, status,
                 unhandled, tfResult>>

(***************************************************************************)
(* outputTensor.data() settles and the suspended runInference resumes; the  *)
(* code waiting for runInference follows in the same turn.                  *)
(***************************************************************************)
InferenceComplete ==
  /\ inflight > 0
  /\ ~resume
  /\ inflight' = inflight - 1
  /\ \E outcome \in {"resolved", "rejected"} :
       /\ tfResult' = outcome
       /\ IF outcome = "resolved"
          THEN /\ status' = Status("Inference complete", 0)
               /\ UNCHANGED unhandled
               /\ AfterInference
          ELSE IF Caught(variant, "dataRejects")
          THEN /\ status' = Status("Error", 0)
               /\ UNCHANGED unhandled
               /\ AfterInference
          ELSE /\ unhandled' = unhandled \cup {"runInference"}
               /\ UNCHANGED status
               /\ UNCHANGED window
  /\ UNCHANGED <<variant, initPc, model, continueLoop, resume>>

(***************************************************************************)
(* initDemo, called once by the page.                                      *)
(***************************************************************************)
\* what initDemo does once requestMotionPermission has returned true, up to
\* its next suspension: part_002 starts collecting and returns, the others
\* go on to loadModel
AfterPermission ==
  IF variant = "part_002"
  THEN /\ initPc' = "done"
       /\ StartCollectingData(continueLoop, accelData, listeners, timers)
       /\ UNCHANGED status
  ELSE /\ initPc' = "loading"
       /\ status' = Status("Loading model...", 0)
       /\ UNCHANGED window

\* initDemo is called; requestMotionPermission either needs no permission
\* or asks the user
InitDemo ==
  /\ initPc = "idle"
  /\ \E needed \in BOOLEAN :
       IF needed
       THEN initPc' = "permission" /\ UNCHANGED status /\ UNCHANGED window
       ELSE AfterPermission
  /\ UNCHANGED <<variant, model, continueLoop, inflight, resume, unhandled,
                 tfResult>>

\* an initDemo of part_002 without the return at its permission test
PermissionResponseNoReturn ==
  /\ initPc = "permission"
  /\ \E response \in {"granted", "denied", "error"} :
       IF response = "granted"
       THEN AfterPermission
       ELSE /\ initPc' = "denied"
            /\ status' = Status("Permission for motion denied.", 0)
            /\ IF variant = "part_002"
               THEN StartCollectingData(continueLoop, accelData, listeners,
                                        timers)
               ELSE UNCHANGED window
  /\ UNCHANGED <<variant, model, continueLoop, inflight, resume, unhandled,
                 tfResult>>

\* DeviceMotionEvent.requestPermission() settles: "granted", anything else
\* ("denied"), or a rejection ("error")
PermissionResponse ==
  /\ initPc = "permission"
  /\ \E response \in {"granted", "denied", "error"} :
       IF response = "granted"
       THEN AfterPermission
       ELSE /\ initPc' = "denied"
            /\ status' = Status("Permission for motion denied.", 0)
            /\ UNCHANGED window
  /\ UNCHANGED <<variant, model, continueLoop, inflight, resume, unhandled,
                 tfResult>>

\* an initDemo without the `if (!model) return` after loadModel
LoadModelDoneNoCheck ==
  /\ initPc = "loading"
  /\ initPc' = "done"
  /\ \E ok \in BOOLEAN :
       /\ model' = IF ok THEN "loaded"
                   ELSE IF variant \in MainVariants THEN "null" ELSE model
       /\ IF variant = "part_001"
          THEN /\ StartCollectingData(continueLoop, accelData, listeners, timers)
               /\ UNCHANGED status
          ELSE /\ status' = Status("Model loaded.", 0)
               /\ IF variant = "part_000" /\ ~continueLoop
                  THEN /\ refused' = TRUE
                       /\ UNCHANGED <<accelData, listeners, timers, ignored,
                                      lastWindow>>
                  ELSE StartCollectingData(TRUE, accelData, listeners, timers)
  /\ continueLoop' = IF variant \in MainVariants THEN TRUE ELSE continueLoop
  /\ UNCHANGED <<variant, inflight, resume, unhandled, tfResult>>

\* tf.loadLayersModel settles and initDemo runs to its end
LoadModelDone ==
  /\ initPc = "loading"
  /\ initPc' = "done"
  /\ \E ok \in BOOLEAN :
       /\ model' = IF ok THEN "loaded"
                   ELSE IF variant \in MainVariants THEN "null" ELSE model
       /\ IF variant = "part_001"
          THEN /\ StartCollectingData(continueLoop, accelData, listeners, timers)
               /\ UNCHANGED status
          ELSE IF ~ok
          THEN /\ status' = Status("Failed to load model.", 0)
               /\ UNCHANGED window
          ELSE /\ status' = Status("Model loaded.", 0)
               /\ IF variant = "part_000" /\ ~continueLoop
                  THEN /\ refused' = TRUE
                       /\ UNCHANGED <<accelData, listeners, timers, ignored,
                                      lastWindow>>
                  ELSE StartCollectingData(TRUE, accelData, listeners, timers)
  /\ continueLoop' = IF variant \in MainVariants /\ model' = "loaded"
                     THEN TRUE ELSE continueLoop
  /\ UNCHANGED <<variant, inflight, resume, unhandled, tfResult>>

Next ==
  \/ InitDemo
  \/ PermissionResponse
  \/ LoadModelDone
  \/ StartContinuousLoop
  \/ StartCollectingDataCall
  \/ StartLoop
  \/ StopContinuousLoop
  \/ MotionEvent
  \/ TimerFire
  \/ ResumeAfterInference
  \/ InferenceComplete

Spec == Init /\ [][Next]_vars

\* The same program with short windows and under the scheduling the event
\* loop gives: a timer that is due is run, a queued microtask is run, and the
\* promise of outputTensor.data() is settled.
ShortMotionEvent ==
  /\ Registrations(listeners) > 0 => Len(accelData) < MaxShortWindow
  /\ MotionEvent

FairNext ==
  \/ InitDemo
  \/ PermissionResponse
  \/ LoadModelDone
  \/ StartContinuousLoop
  \/ StartCollectingDataCall
  \/ StartLoop
  \/ StopContinuousLoop
  \/ ShortMotionEvent
  \/ TimerFire
  \/ ResumeAfterInference
  \/ InferenceComplete

FairSpec ==
  /\ Init
  /\ [][FairNext]_vars
  /\ WF_vars(TimerFire)
  /\ WF_vars(ResumeAfterInference)
  /\ WF_vars(InferenceComplete)

\* The program on a device whose sensor omits values; the page calls nothing
\* but initDemo.
SensorNext ==
  \/ InitDemo
  \/ PermissionResponse
  \/ LoadModelDone
  \/ FaultyMotionEvent
  \/ TimerFire
  \/ ResumeAfterInference
  \/ InferenceComplete

SensorSpec == Init /\ [][SensorNext]_vars

(***************************************************************************)
(* Properties.                                                             *)
(***************************************************************************)
\* C1: in every continuous-loop variant, whatever the number of readings a
\* window collected and whatever happened before, the buffer that
\* stopCollectingData hands to runInference has exactly TARGET_SAMPLES entries.
C1_HandedWindowHasTargetLength ==
  (variant \in LoopVariants /\ lastWindow.fired)
    => Len(lastWindow.handed) = TARGET_SAMPLES

\* a loop variant has handed on a window that had collected more readings than
\* the target
C1_Witness ==
  /\ variant = "main_downsample"
  /\ lastWindow.fired
  /\ Len(lastWindow.raw) > TARGET_SAMPLES
  /\ Len(lastWindow.handed) = TARGET_SAMPLES

\* C2: a window of L < TARGET_SAMPLES readings (L = 0 included) is handed on as
\* its L readings in their order followed by TARGET_SAMPLES - L entries
\* (0,0,0) at the tail.
C2_PadAtTail ==
  (lastWindow.fired /\ Len(lastWindow.raw) < TARGET_SAMPLES)
    => /\ Len(lastWindow.handed) = TARGET_SAMPLES
       /\ \A k \in 1..Len(lastWindow.raw) :
            lastWindow.handed[k] = lastWindow.raw[k]
       /\ \A k \in (Len(lastWindow.raw) + 1)..TARGET_SAMPLES :
            lastWindow.handed[k] = ZeroReading

\* 40 readings were collected and 12 zero entries follow them
C2_Witness ==
  /\ lastWindow.fired
  /\ Len(lastWindow.raw) = 40
  /\ lastWindow.raw[40] # ZeroReading
  /\ lastWindow.handed[40] = lastWindow.raw[40]
  /\ \A k \in 41..TARGET_SAMPLES : lastWindow.handed[k] = ZeroReading

\* C3: in the downsample variant a window of L > TARGET_SAMPLES readings is
\* handed on as the readings at the indices floor(i * L / TARGET_SAMPLES),
\* i = 0 .. TARGET_SAMPLES - 1.
C3_DownsampleUniformStride ==
  (variant = "main_downsample" /\ lastWindow.fired
     /\ Len(lastWindow.raw) > TARGET_SAMPLES)
    => \A i \in 0..(TARGET_SAMPLES - 1) :
         lastWindow.handed[i + 1] =
           lastWindow.raw[(i * Len(lastWindow.raw)) \div TARGET_SAMPLES + 1]

\* C4: in the truncating variants a window of L > TARGET_SAMPLES readings is
\* handed on as exactly its last TARGET_SAMPLES readings, in their order.
C4_TruncateKeepsTail ==
  (variant # "main_downsample" /\ lastWindow.fired
     /\ Len(lastWindow.raw) > TARGET_SAMPLES)
    => /\ Len(lastWindow.handed) = TARGET_SAMPLES
       /\ \A k \in 1..TARGET_SAMPLES :
            lastWindow.handed[k] =
              lastWindow.raw[Len(lastWindow.raw) - TARGET_SAMPLES + k]

\* a truncating variant has cut a window longer than the target, and the
\* oldest reading is gone
C4_Witness ==
  /\ variant = "part_000"
  /\ lastWindow.fired
  /\ Len(lastWindow.raw) = TARGET_SAMPLES + 3
  /\ lastWindow.handed[1] = lastWindow.raw[4]
  /\ lastWindow.handed[1] # lastWindow.raw[1]

\* C5: at most one collection cycle exists at any time: never more than one
\* pending collection timer, and no armed window beside a running inference.
C5_AtMostOneCycle == Cycles <= 1

\* what C6 asks of a single step
C6_Step ==
  (variant \in MainVariants /\ inflight' < inflight
     /\ tfResult' = "resolved" /\ continueLoop)
    => /\ accelData' = <<>>
       /\ Registrations(listeners') = 1
       /\ Len(listeners') = 1
       /\ timers' = timers + 1
       /\ (Cycles = 1 => timers' = 1)

\* C6: with continueLoop true, a successful inference completion in main.js
\* re-arms: accelData is reset to empty, handleMotionEvent is registered
\* exactly once and one new collection timer is scheduled (the only one when
\* the loop was started once).
C6_RearmAfterInference == [][C6_Step]_vars

\* after one start, a timer fire and a successful inference, main.js is armed
\* again with an empty buffer, one registration and one timer
C6_Witness ==
  /\ variant \in MainVariants
  /\ tfResult = "resolved"
  /\ continueLoop
  /\ accelData = <<>>
  /\ listeners = <<MotionListener>>
  /\ timers = 1
  /\ inflight = 0
  /\ lastWindow = NoWindow

\* what C7 asks of a single step
C7_Step ==
  variant \in MainVariants
    => /\ (timers' < timers /\ tfResult' \in {"modelNull", "predictThrows"})
            => /\ resume'
               /\ unhandled' = unhandled
               /\ status'.text \in {"Model not loaded.", "Error"}
       /\ (resume /\ continueLoop)
            => /\ ~resume'
               /\ accelData' = <<>>
               /\ Registrations(listeners') = 1
               /\ timers' = timers + 1

\* C7: in main.js an inference that fails because model is null or because
\* model.predict throws is reported to the status sink, runInference returns
\* normally, and with continueLoop true stopCollectingData then arms the next
\* window.
C7_FailedInferenceStillRearms == [][C7_Step]_vars

\* model.predict threw in main.js, nothing escaped, and the next window is
\* armed
C7_Witness ==
  /\ variant \in MainVariants
  /\ tfResult = "predictThrows"
  /\ continueLoop
  /\ ~resume
  /\ unhandled = {}
  /\ timers = 1
  /\ Registrations(listeners) = 1
  /\ accelData = <<>>

\* C8: in part_000 an inference failure never escapes unhandled, and while
\* continueLoop is true the loop, once started, keeps a cycle going.
C8_FailureIsolatedInPart000 ==
  variant = "part_000"
    => /\ "runInference" \notin unhandled
       /\ (model = "loaded" /\ continueLoop) => Cycles >= 1

\* what C9 asks of a single step
C9_Step ==
  (variant \in LoopVariants /\ ~continueLoop)
    => /\ Registrations(listeners) = 0
       /\ (MotionEvent => accelData' = accelData)

\* C9: once stopContinuousLoop has run, and until the next start,
\* handleMotionEvent is not registered and no delivered motion event changes
\* accelData.
C9_StopDetachesListener == [][C9_Step]_vars

\* the loop was stopped while a window was armed (its timer is still
\* pending), events were delivered afterwards, and the buffer holds what it
\* held
C9_Witness ==
  /\ variant \in MainVariants
  /\ ~continueLoop
  /\ timers = 1
  /\ ignored = MaxIgnored
  /\ Len(accelData) = 3
  /\ status.text = "Loop stopped."

\* what C10 asks of a single step
C10_Step == (variant \in LoopVariants /\ ~continueLoop) => ~TimerFire

\* C10: after stopContinuousLoop the armed window is abandoned: no collection
\* timer fires, so nothing is normalised and runInference is not called,
\* until the next start.
C10_StoppedWindowAbandoned == [][C10_Step]_vars

\* what C11 asks of a single step
C11_Step ==
  variant \in LoopVariants =>
    /\ (continueLoop /\ ~continueLoop')
         => (inflight' = inflight /\ resume' = resume /\ timers' = timers)
    /\ (~continueLoop /\ ~continueLoop'
          /\ (inflight' < inflight \/ (resume /\ ~resume')))
         => UNCHANGED <<accelData, listeners, timers>>

\* C11: a stop issued while an inference is in flight does not interrupt it:
\* the stop step leaves the suspended runInference calls as they are, and when
\* such a call completes with continueLoop still false the cycle is not
\* re-armed: accelData is not reset, no listener is attached and no timer is
\* scheduled.
C11_StopDuringInferenceNoRearm == [][C11_Step]_vars

\* the loop was stopped after the timer had fired and while the inference of
\* that window is still in flight
C11_Witness ==
  /\ variant \in LoopVariants
  /\ ~continueLoop
  /\ inflight = 1
  /\ timers = 0
  /\ tfResult = "pending"
  /\ status.text = "Loop stopped."

\* C12: continuous operation is live: while continueLoop stays true, every
\* collection timer fires and every runInference call comes to an end,
\* successfully or not, and another window is armed after it, so a started
\* loop is never left without a pending timer, a running inference or a
\* continuation about to run.
C12_LoopNeverStalls ==
  (variant \in LoopVariants /\ initPc = "done" /\ model = "loaded"
     /\ continueLoop)
    => Cycles >= 1

\* nothing of a cycle is left: no listener, no timer, no inference
Quiescent ==
  /\ Registrations(listeners) = 0
  /\ timers = 0
  /\ inflight = 0
  /\ ~resume

\* C13: once the loop has been stopped and no start follows (continueLoop
\* stays false from some point on), the system reaches, from whatever state
\* the stop found it in, a state with the listener detached, no timer pending
\* and no inference in flight, and stays there.
C13_StopLeadsToIdle == <>[](~continueLoop) => <>[]Quiescent

\* the loop was stopped and what was pending at that time has run to its end:
\* the timer has fired, the inference has completed, nothing was armed again
C13_Witness ==
  /\ ~continueLoop
  /\ Quiescent
  /\ lastWindow.fired
  /\ tfResult = "resolved"
  /\ status.text = "Inference complete"

\* initDemo has started nothing
NothingStarted ==
  /\ listeners = <<>>
  /\ timers = 0
  /\ inflight = 0
  /\ ~resume
  /\ model = "null"
  /\ tfResult = "none"
  /\ accelData = <<>>

\* what C14 asks of a single step
C14_Step ==
  /\ (initPc = "permission" /\ initPc' = "denied") => NothingStarted'
  /\ (initPc = "denied" /\ NothingStarted
        /\ ~(StartContinuousLoop \/ StartCollectingDataCall \/ StartLoop))
       => (initPc' = "denied" /\ NothingStarted')

\* C14: when the permission request is denied or throws, initDemo returns
\* without having started a cycle: handleMotionEvent is not attached, no timer
\* is scheduled, the model is not loaded and runInference is not called, and
\* unless the page itself calls a start function nothing changes that later:
\* initDemo does not try again.
C14_DeniedStartsNothing == [][C14_Step]_vars

\* permission was denied in part_002, motion events have been delivered since,
\* and nothing was collected
C14_Witness ==
  /\ variant = "part_002"
  /\ initPc = "denied"
  /\ status.text = "Permission for motion denied."
  /\ NothingStarted
  /\ ignored = MaxIgnored

\* what C15 asks of a single step
C15_Step ==
  (~continueLoop /\ (StartCollectingDataCall \/ StartLoop))
    => UNCHANGED <<accelData, listeners, timers>>

\* C15: a start with the loop flag cleared does nothing: startCollectingData
\* of main.js and startLoop of part_000, called with continueLoop false, leave
\* accelData, the listener registration and the pending timers as they are.
C15_StartRefusedWhenStopped == [][C15_Step]_vars

\* main.js was stopped while a window with two readings was armed, then
\* startCollectingData was called: the readings, the pending timer and the
\* empty listener list are still there
C15_Witness ==
  /\ variant \in MainVariants
  /\ ~continueLoop
  /\ refused
  /\ timers = 1
  /\ Len(accelData) = 2
  /\ listeners = <<>>

\* C16: every reading handleMotionEvent has stored carries a number on each
\* of x, y and z, in main.js, part_000 and part_001: an axis the event omits,
\* or a missing accelerationIncludingGravity, is stored as 0, never as an
\* absent value.
C16_StoredAxesDefined ==
  variant \in MainVariants \cup {"part_000", "part_001"} =>
    \A k \in 1..Len(accelData) :
      /\ accelData[k].x # Undefined
      /\ accelData[k].y # Undefined
      /\ accelData[k].z # Undefined

\* C17: normalisation is idempotent under both policies: a window that
\* stopCollectingData finds with exactly TARGET_SAMPLES entries is handed on
\* unchanged, and normalising a handed window once more returns the same
\* window.
C17_NormalizeIdempotent ==
  lastWindow.fired =>
    /\ Len(lastWindow.raw) = TARGET_SAMPLES
         => lastWindow.handed = lastWindow.raw
    /\ Normalize(variant, lastWindow.handed) = lastWindow.handed

\* a second timer has fired on a buffer the first one had downsampled (its
\* last entry is a reading that arrived after the 52nd), and handed on the
\* same buffer
C17_Witness ==
  /\ variant = "main_downsample"
  /\ lastWindow.fired
  /\ Len(lastWindow.raw) = TARGET_SAMPLES
  /\ lastWindow.raw[TARGET_SAMPLES].x > TARGET_SAMPLES
  /\ lastWindow.handed = lastWindow.raw

\* C18: stopCollectingData removes the listener before it reads the buffer:
\* from the timer firing until the next window is armed, through stop and
\* start calls of the page, overlapping cycles and the whole of the
\* inference, handleMotionEvent is not registered and accelData stays the
\* window that was handed to runInference.
C18_NoLateReading ==
  lastWindow.fired =>
    /\ Registrations(listeners) = 0
    /\ accelData = lastWindow.handed

\* the timer fired on three readings, the inference is in flight, motion
\* events were delivered meanwhile, and the buffer is still the handed window
C18_Witness ==
  /\ variant \in LoopVariants
  /\ continueLoop
  /\ lastWindow.fired
  /\ Len(lastWindow.raw) = 3
  /\ inflight = 1
  /\ ignored = MaxIgnored
  /\ accelData = lastWindow.handed

\* what C19 asks of a single step
C19_Step ==
  (timers > 0 /\ ~lastWindow.fired /\ ~lastWindow'.fired)
    => \/ accelData' = accelData
       \/ /\ Len(accelData') = Len(accelData) + 1
          /\ SubSeq(accelData', 1, Len(accelData)) = accelData

\* C19: the buffer is append-only while a window is armed: from the arm to
\* the firing of its timer every step leaves accelData as it is or appends
\* one reading at its tail, so the timer finds the readings delivered since
\* the arm, in their order, none lost, duplicated or moved.
C19_AppendOnlyWhileArmed == [][C19_Step]_vars

\* what C20 asks of a single step
C20_Step ==
  /\ Registrations(listeners) <= 1
  /\ Registrations(listeners') <= 1
  /\ MotionEvent => Len(accelData') <= Len(accelData) + 1

\* C20: arming and disarming are idempotent on the listener: in every
\* reachable state handleMotionEvent is registered not at all or exactly
\* once, however often startCollectingData, stopCollectingData and
\* stopContinuousLoop have run, so a delivered motion event appends at most
\* one reading.
C20_RegisteredAtMostOnce == [][C20_Step]_vars

\* two windows were armed one after the other (two timers are pending, so
\* addEventListener ran twice), one motion event was delivered, and the
\* buffer holds one reading
C20_Witness ==
  /\ variant \in LoopVariants
  /\ timers = 2
  /\ Registrations(listeners) = 1
  /\ accelData = <<[x |-> 1, y |-> 1, z |-> 1]>>
  /\ status = Status("Collecting", 1)

\* C21: the downsample branch stays inside the buffer and repeats nothing:
\* for a window of L > TARGET_SAMPLES readings every entry handed on is one of
\* the L readings (no index outside 0..L-1) and the entries are taken at
\* strictly increasing positions; and an empty window takes the pad branch,
\* so that it is handed on as TARGET_SAMPLES zero entries.
C21_DownsampleInBounds ==
  (variant = "main_downsample" /\ lastWindow.fired) =>
    /\ Len(lastWindow.raw) > TARGET_SAMPLES =>
         /\ \A k \in 1..Len(lastWindow.raw) : lastWindow.raw[k].x = k
         /\ \A k \in 1..TARGET_SAMPLES :
              /\ lastWindow.handed[k].x \in 1..Len(lastWindow.raw)
              /\ lastWindow.handed[k] = lastWindow.raw[lastWindow.handed[k].x]
              /\ k < TARGET_SAMPLES
                   => lastWindow.handed[k].x < lastWindow.handed[k + 1].x
    /\ lastWindow.raw = <<>> =>
         lastWindow.handed = [k \in 1..TARGET_SAMPLES |-> ZeroReading]

\* a window of 60 readings was downsampled: the first entry is the first
\* reading and the last entry is the 59th (index 58)
C21_Witness ==
  /\ variant = "main_downsample"
  /\ lastWindow.fired
  /\ Len(lastWindow.raw) = 60
  /\ lastWindow.handed[1].x = 1
  /\ lastWindow.handed[TARGET_SAMPLES].x = 59

\* C22: normalisation reads the collected buffer and leaves it alone: after
\* the timer has fired, and until the next window is armed, accelData still
\* holds the raw readings of the window, and the normalised window is a
\* value of its own.
C22_RawBufferKept ==
  lastWindow.fired => accelData = lastWindow.raw

\* no window was armed and runInference was not called
LoopNotStarted ==
  /\ listeners = <<>>
  /\ timers = 0
  /\ inflight = 0
  /\ ~resume
  /\ accelData = <<>>
  /\ ~lastWindow.fired
  /\ tfResult = "none"

\* what C23 asks of a single step
C23_Step ==
  variant \in LoopVariants =>
    /\ (initPc = "loading" /\ model' = "null") => LoopNotStarted'
    /\ (initPc = "loading" /\ timers' > timers) => model' = "loaded"
    /\ (initPc = "done" /\ model = "null" /\ LoopNotStarted
          /\ ~(StartContinuousLoop \/ StartCollectingDataCall \/ StartLoop))
         => (model' = "null" /\ LoopNotStarted')

\* C23: in main.js and part_000 initDemo starts the loop only with a loaded
\* model: when loadModel leaves model null, initDemo returns without a
\* listener and without a timer, and unless the page calls a start function
\* itself it stays so and runInference is not called; a loop that initDemo
\* does start has the model loaded.
C23_LoopNeedsModel == [][C23_Step]_vars

\* loading failed in a loop variant; motion events have come since and
\* nothing was armed
C23_Witness ==
  /\ variant \in LoopVariants
  /\ initPc = "done"
  /\ model = "null"
  /\ status.text = "Failed to load model."
  /\ LoopNotStarted
  /\ ignored = MaxIgnored

\* what C24 asks of a single step
C24_Step ==
  StopContinuousLoop =>
    /\ ~continueLoop'
    /\ Registrations(listeners') = 0
    /\ UNCHANGED <<accelData, timers, inflight, resume, model, initPc,
                   unhandled, tfResult>>

\* C24: stopContinuousLoop (stopLoop in part_000) clears the loop flag and
\* removes the listener and touches nothing else of the cycle: accelData
\* keeps its readings and every pending collection timer stays pending, as do
\* the inferences in flight and the model.
C24_StopFrame == [][C24_Step]_vars

\* part_000 was stopped with two windows armed and one reading collected:
\* both timers are still pending and the reading is still in the buffer
C24_Witness ==
  /\ variant = "part_000"
  /\ ~continueLoop
  /\ timers = 2
  /\ accelData = <<[x |-> 1, y |-> 1, z |-> 1]>>
  /\ listeners = <<>>
  /\ status.text = "Loop stopped."

\* part_002: the number of motion events handleMotionEvent has handled, which
\* is the number its latest status line carries
Delivered == IF status.text = "Latest Reading" THEN status.n ELSE 0

\* C25: the rolling buffer of part_002 never holds more than MAX_SAMPLES
\* readings, and after k delivered events it holds the latest
\* min(k, MAX_SAMPLES) of them in the order of their arrival: the oldest
\* reading is the one that is dropped.
C25_RollingBuffer ==
  variant = "part_002" =>
    LET n == Len(accelData)
    IN  /\ n <= MAX_SAMPLES
        /\ n = IF Delivered < MAX_SAMPLES THEN Delivered ELSE MAX_SAMPLES
        /\ \A j \in 1..n :
             /\ accelData[j].t = Delivered - n + j
             /\ accelData[j].x = Delivered - n + j

\* MAX_SAMPLES + MaxRolled events were delivered: the buffer is full, its
\* oldest readings are gone and the newest one is at its end
C25_Witness ==
  /\ variant = "part_002"
  /\ Delivered = MAX_SAMPLES + MaxRolled
  /\ Len(accelData) = MAX_SAMPLES
  /\ accelData[1].t = MaxRolled + 1
  /\ accelData[MAX_SAMPLES].t = MAX_SAMPLES + MaxRolled

=============================================================================
